---- MODULE Spec2Model ----
(***************************************************************************)
(* Model of the OpenAI -> NVIDIA NIM proxy (src/server.js): the history    *)
(* windower limitMessagesByTokens, the lead-in stripper cleanResponse and  *)
(* the /v1/chat/completions handler with its streaming callbacks.          *)
(*                                                                         *)
(* A JavaScript string is a sequence of one-character strings.  The two    *)
(* non-ASCII characters used are written "U+00E9" and "U+FFFD"; each is    *)
(* one character (one UTF-16 unit).  A byte of the upstream transport is   *)
(* the ASCII character it encodes, or "C3" / "A9" for the two bytes of the *)
(* UTF-8 encoding of U+00E9.                                               *)
(***************************************************************************)
EXTENDS Integers, Sequences, FiniteSets, TLC

VARIABLES
  messages, maxTokens, i, totalTokens, keptMessages, wpc,
  text, cleanedOnce, cleanedTwice, cpc,
  phase, stream, upstream, reply, calls, upstreamStatus, sent,
  pos, buffer, isFirstChunk, accumulatedContent, written, decoded, ended,
  handled, errored,
  reqs, closures, alone

windowVars == <<messages, maxTokens, i, totalTokens, keptMessages, wpc>>

cleanVars == <<text, cleanedOnce, cleanedTwice, cpc>>

streamVars ==
  <<pos, buffer, isFirstChunk, accumulatedContent, written, decoded, ended,
    handled, errored>>

reqVars ==
  <<phase, stream, upstream, reply, calls, upstreamStatus, sent, streamVars>>

twoVars == <<reqs, closures, alone>>

vars == <<windowVars, cleanVars, reqVars, twoVars>>

(***************************************************************************)
(* Bounds of the model.                                                    *)
(***************************************************************************)
MaxMsgs == 3
MaxBudget == 20
MaxPieces == 3
MaxChunk == 2
MaxSpan == 2

(***************************************************************************)
(* Strings.                                                                *)
(***************************************************************************)
DropFirst(s, n) == SubSeq(s, n + 1, Len(s))

WhiteSpace == {" ", "\n", "\t"}

LowerOf ==
  [c \in {"A", "C", "G", "H", "I", "K", "L", "O", "R", "S", "U", "Y"} |->
     CASE c = "A" -> "a" [] c = "C" -> "c" [] c = "G" -> "g"
       [] c = "H" -> "h" [] c = "I" -> "i" [] c = "K" -> "k"
       [] c = "L" -> "l" [] c = "O" -> "o" [] c = "R" -> "r"
       [] c = "S" -> "s" [] c = "U" -> "u" [] c = "Y" -> "y"]

\* canonical form of a character under the /i flag
Fold(c) == IF c \in DOMAIN LowerOf THEN LowerOf[c] ELSE c

\* index of the last character of the whitespace run that starts at from
\* (from - 1 when there is none)
WsRunEnd(t, from) ==
  CHOOSE m \in (from - 1)..Len(t) :
    /\ \A j \in from..m : t[j] \in WhiteSpace
    /\ m = Len(t) \/ t[m + 1] \notin WhiteSpace

trimStart(t) == DropFirst(t, WsRunEnd(t, 1))

(***************************************************************************)
(* UNWANTED_PHRASES: /^<phrase><punct>?\s+/i                               *)
(***************************************************************************)
PunctA == {".", ",", "!"}
PunctB == {".", ":", ","}

UNWANTED_PHRASES == <<
  [phrase |-> <<"O", "f", " ", "c", "o", "u", "r", "s", "e">>, punct |-> PunctA],
  [phrase |-> <<"H", "e", "r", "e", " ", "i", "s", " ", "t", "h", "e", " ",
                "r", "e", "s", "p", "o", "n", "s", "e">>, punct |-> PunctB],
  [phrase |-> <<"H", "e", "r", "e", " ", "i", "s">>, punct |-> PunctB],
  [phrase |-> <<"S", "u", "r", "e">>, punct |-> PunctA],
  [phrase |-> <<"C", "e", "r", "t", "a", "i", "n", "l", "y">>, punct |-> PunctA],
  [phrase |-> <<"I", " ", "u", "n", "d", "e", "r", "s", "t", "a", "n", "d">>,
   punct |-> PunctA],
  [phrase |-> <<"I", "'", "l", "l", " ", "h", "e", "l", "p">>, punct |-> PunctA],
  [phrase |-> <<"L", "e", "t", " ", "m", "e">>, punct |-> PunctA],
  [phrase |-> <<"I", " ", "w", "i", "l", "l">>, punct |-> PunctA],
  [phrase |-> <<"O", "k", "a", "y">>, punct |-> PunctA],
  [phrase |-> <<"A", "l", "r", "i", "g", "h", "t">>, punct |-> PunctA],
  [phrase |-> <<"G", "o", "t", " ", "i", "t">>, punct |-> PunctA],
  [phrase |-> <<"U", "n", "d", "e", "r", "s", "t", "o", "o", "d">>, punct |-> PunctA],
  [phrase |-> <<"H", "e", "r", "e", "'", "s">>, punct |-> PunctA],
  [phrase |-> <<"H", "e", "r", "e", " ", "a", "r", "e">>, punct |-> PunctA] >>

\* number of characters the pattern matches at the start of t, 0 for no match
MatchLen(t, pat) ==
  LET k == Len(pat.phrase)
      p == IF Len(t) > k /\ t[k + 1] \in pat.punct THEN k + 1 ELSE k
  IN  IF /\ Len(t) > p
         /\ \A j \in 1..k : Fold(t[j]) = Fold(pat.phrase[j])
         /\ t[p + 1] \in WhiteSpace
      THEN WsRunEnd(t, p + 1)
      ELSE 0

\* cleaned.replace(pattern, '')
Replace(t, pat) == DropFirst(t, MatchLen(t, pat))

\* the for loop over UNWANTED_PHRASES, from pattern k on
RECURSIVE ReplaceFrom(_, _)
ReplaceFrom(t, k) ==
  IF k > Len(UNWANTED_PHRASES) THEN t
  ELSE ReplaceFrom(Replace(t, UNWANTED_PHRASES[k]), k + 1)

\* one iteration of the do-while body
CleanPass(t) == trimStart(ReplaceFrom(t, 1))

\* the loop condition, evaluated after a pass turned previous into cleaned
RepeatOnce(previous, cleaned) == FALSE

Repeat(previous, cleaned) == Len(cleaned) # Len(previous) /\ Len(cleaned) > 0

RECURSIVE DoWhile(_)
DoWhile(t) ==
  LET cleaned == CleanPass(t)
  IN  IF Repeat(t, cleaned) THEN DoWhile(cleaned) ELSE cleaned

cleanResponse(t) == IF t = <<>> THEN t ELSE DoWhile(t)

(***************************************************************************)
(* JSON.stringify of a string and of a message.                            *)
(***************************************************************************)
EscapeChar(c) ==
  CASE c = "\"" -> <<"\\", "\"">>
    [] c = "\\" -> <<"\\", "\\">>
    [] c = "\n" -> <<"\\", "n">>
    [] c = "\t" -> <<"\\", "t">>
    [] OTHER -> <<c>>

RECURSIVE Escape(_)
Escape(s) ==
  IF \A j \in 1..Len(s) : s[j] \notin {"\"", "\\", "\n", "\t"} THEN s
  ELSE EscapeChar(Head(s)) \o Escape(Tail(s))

Quote(s) == <<"\"">> \o Escape(s) \o <<"\"">>

StringifyMessage(msg) ==
  <<"{", "\"", "r", "o", "l", "e", "\"", ":">> \o Quote(msg.role)
    \o <<",", "\"", "c", "o", "n", "t", "e", "n", "t", "\"", ":">>
    \o Quote(msg.content) \o <<"}">>

(***************************************************************************)
(* estimateTokens and limitMessagesByTokens, one action per loop step.     *)
(***************************************************************************)
estimateTokens(t) == (Len(t) + 3) \div 4

FitsAlone(total, tokens, max) == tokens <= max

Fits(total, tokens, max) == total + tokens <= max

PushBack(kept, msg) == Append(kept, msg)

Unshift(kept, msg) == <<msg>> \o kept

Roles == {<<"u", "s", "e", "r">>, <<"a", "s", "s", "i", "s", "t", "a", "n", "t">>}

Contents == {<<>>, <<"h", "i">>, <<"a", "\"", "b", "\n">>}

Message == [role : Roles, content : Contents]

Histories == UNION {[1..n -> Message] : n \in 0..MaxMsgs}

WindowInit ==
  /\ messages \in Histories
  /\ maxTokens \in 0..MaxBudget
  /\ i = 0
  /\ totalTokens = 0
  /\ keptMessages = <<>>
  /\ wpc = "call"

WindowOff ==
  /\ messages = <<>>
  /\ maxTokens = 0
  /\ i = 0
  /\ totalTokens = 0
  /\ keptMessages = <<>>
  /\ wpc = "off"

\* if (!messages || messages.length === 0) return messages;
ReturnEmpty ==
  /\ wpc = "call"
  /\ Len(messages) = 0
  /\ keptMessages' = messages
  /\ wpc' = "done"
  /\ UNCHANGED <<messages, maxTokens, i, totalTokens, cleanVars, reqVars, twoVars>>

\* let totalTokens = 0; const keptMessages = []; i = messages.length - 1
EnterLoop ==
  /\ wpc = "call"
  /\ Len(messages) # 0
  /\ totalTokens' = 0
  /\ keptMessages' = <<>>
  /\ i' = Len(messages)
  /\ wpc' = "loop"
  /\ UNCHANGED <<messages, maxTokens, cleanVars, reqVars, twoVars>>

Keep ==
  /\ wpc = "loop"
  /\ i >= 1
  /\ LET msg == messages[i]
         tokens == estimateTokens(StringifyMessage(msg))
     IN  /\ Fits(totalTokens, tokens, maxTokens)
         /\ keptMessages' = Unshift(keptMessages, msg)
         /\ totalTokens' = totalTokens + tokens
  /\ i' = i - 1
  /\ UNCHANGED <<messages, maxTokens, wpc, cleanVars, reqVars, twoVars>>

\* the over-budget message skipped, the scan going on with older ones
Skip ==
  /\ wpc = "loop"
  /\ i >= 1
  /\ ~Fits(totalTokens, estimateTokens(StringifyMessage(messages[i])), maxTokens)
  /\ i' = i - 1
  /\ UNCHANGED <<messages, maxTokens, wpc, totalTokens, keptMessages, cleanVars, reqVars, twoVars>>

Break ==
  /\ wpc = "loop"
  /\ i >= 1
  /\ ~Fits(totalTokens, estimateTokens(StringifyMessage(messages[i])), maxTokens)
  /\ wpc' = "done"
  /\ UNCHANGED <<messages, maxTokens, i, totalTokens, keptMessages, cleanVars, reqVars, twoVars>>

LoopEnd ==
  /\ wpc = "loop"
  /\ i < 1
  /\ wpc' = "done"
  /\ UNCHANGED <<messages, maxTokens, i, totalTokens, keptMessages, cleanVars, reqVars, twoVars>>

WindowNext == ReturnEmpty \/ EnterLoop \/ Keep \/ Break \/ LoopEnd

(***************************************************************************)
(* cleanResponse applied to a text, and again to its own result.           *)
(***************************************************************************)
Pieces == {
  <<"S", "u", "r", "e">>,
  <<"O", "K", "A", "Y", " ">>,
  <<"H", "e", "r", "e", " ", "i", "s">>,
  <<" ", "t", "h", "e", " ", "r", "e", "s", "p", "o", "n", "s", "e", ":", " ">>,
  <<"O", "f", " ", "c", "o", "u", "r", "s", "e", "!", " ">>,
  <<",">>,
  <<" ">>,
  <<"\n", " ">>,
  <<"x">> }

RECURSIVE Concat(_)
Concat(ss) == IF ss = <<>> THEN <<>> ELSE Head(ss) \o Concat(Tail(ss))

Texts == {Concat(ps) : ps \in UNION {[1..n -> Pieces] : n \in 0..MaxPieces}}

CleanInit ==
  /\ text \in Texts
  /\ cleanedOnce = <<>>
  /\ cleanedTwice = <<>>
  /\ cpc = "text"

CleanOff ==
  /\ text = <<>>
  /\ cleanedOnce = <<>>
  /\ cleanedTwice = <<>>
  /\ cpc = "off"

CleanOnce ==
  /\ cpc = "text"
  /\ cleanedOnce' = cleanResponse(text)
  /\ cpc' = "once"
  /\ UNCHANGED <<text, cleanedTwice, windowVars, reqVars, twoVars>>

CleanTwice ==
  /\ cpc = "once"
  /\ cleanedTwice' = cleanResponse(cleanedOnce)
  /\ cpc' = "twice"
  /\ UNCHANGED <<text, cleanedOnce, windowVars, reqVars, twoVars>>

CleanNext == CleanOnce \/ CleanTwice

(***************************************************************************)
(* The payload of an upstream event.  The upstream payloads of this model  *)
(* have the shape {"choices":[{"delta":{...}}]} where the delta holds      *)
(* string-valued fields without escape sequences; JSON.parse yields the    *)
(* ordered fields of the delta, and throws on any other text the model     *)
(* feeds it (a truncated payload).                                         *)
(***************************************************************************)
DataPrefix == <<"d", "a", "t", "a", ":", " ">>

DoneMark == <<"[", "D", "O", "N", "E", "]">>

EnvelopeOpen ==
  <<"{", "\"", "c", "h", "o", "i", "c", "e", "s", "\"", ":", "[", "{",
    "\"", "d", "e", "l", "t", "a", "\"", ":", "{">>

EnvelopeClose == <<"}", "}", "]", "}">>

ContentKey == <<"c", "o", "n", "t", "e", "n", "t">>

ReasoningKey ==
  <<"r", "e", "a", "s", "o", "n", "i", "n", "g", "_", "c", "o", "n", "t", "e", "n", "t">>

RoleKey == <<"r", "o", "l", "e">>

StartsWith(s, pre) == Len(s) >= Len(pre) /\ SubSeq(s, 1, Len(pre)) = pre

EndsWith(s, suf) ==
  Len(s) >= Len(suf) /\ SubSeq(s, Len(s) - Len(suf) + 1, Len(s)) = suf

Includes(s, pat) ==
  \E k \in 1..(Len(s) - Len(pat) + 1) : SubSeq(s, k, k + Len(pat) - 1) = pat

\* index of the first c in s at or after from, 0 when there is none
IndexOf(s, c, from) ==
  IF \E k \in from..Len(s) : s[k] = c
  THEN CHOOSE k \in from..Len(s) : s[k] = c /\ \A j \in from..(k - 1) : s[j] # c
  ELSE 0

\* "key":"value"[,"key":"value"]* -> the fields in order
RECURSIVE ParseFields(_)
ParseFields(s) ==
  LET q1 == IndexOf(s, "\"", 2)
      q2 == IndexOf(s, "\"", q1 + 3)
      bad == [ok |-> FALSE, fields |-> <<>>]
  IN  IF Len(s) < 5 \/ s[1] # "\"" \/ q1 = 0 \/ q1 + 2 > Len(s) THEN bad
      ELSE IF s[q1 + 1] # ":" \/ s[q1 + 2] # "\"" \/ q2 = 0 THEN bad
      ELSE LET field == [key |-> SubSeq(s, 2, q1 - 1),
                         value |-> SubSeq(s, q1 + 3, q2 - 1)]
           IN  IF q2 = Len(s) THEN [ok |-> TRUE, fields |-> <<field>>]
               ELSE IF s[q2 + 1] # "," THEN bad
               ELSE LET rest == ParseFields(DropFirst(s, q2 + 1))
                    IN  [ok |-> rest.ok, fields |-> <<field>> \o rest.fields]

\* JSON.parse: ok = FALSE stands for the SyntaxError it throws
JSONparse(s) ==
  IF ~(StartsWith(s, EnvelopeOpen) /\ EndsWith(s, EnvelopeClose)
       /\ Len(s) >= Len(EnvelopeOpen) + Len(EnvelopeClose))
  THEN [ok |-> FALSE, delta |-> <<>>]
  ELSE LET body == SubSeq(s, Len(EnvelopeOpen) + 1, Len(s) - Len(EnvelopeClose))
           r == ParseFields(body)
       IN  IF body = <<>> THEN [ok |-> TRUE, delta |-> <<>>]
           ELSE [ok |-> r.ok, delta |-> r.fields]

RECURSIVE StringifyFields(_)
StringifyFields(fs) ==
  IF fs = <<>> THEN <<>>
  ELSE Quote(Head(fs).key) \o <<":">> \o Quote(Head(fs).value)
         \o (IF Len(fs) > 1 THEN <<",">> ELSE <<>>) \o StringifyFields(Tail(fs))

\* JSON.stringify(data)
JSONstringify(delta) == EnvelopeOpen \o StringifyFields(delta) \o EnvelopeClose

HasField(delta, key) == \E k \in 1..Len(delta) : delta[k].key = key

\* delta.<key>, the empty string standing for undefined as well (both falsy)
Field(delta, key) ==
  IF HasField(delta, key)
  THEN delta[CHOOSE k \in 1..Len(delta) : delta[k].key = key].value
  ELSE <<>>

\* delta.content = value
SetContent(delta, value) ==
  [k \in 1..Len(delta) |->
     IF delta[k].key = ContentKey THEN [key |-> ContentKey, value |-> value]
     ELSE delta[k]]

\* delete delta.reasoning_content
DeleteReasoning(delta) == SelectSeq(delta, LAMBDA f : f.key # ReasoningKey)

\* `data: ${JSON.stringify(data)}\n\n`
EventText(delta) == DataPrefix \o JSONstringify(delta) \o <<"\n", "\n">>

DoneText == DataPrefix \o DoneMark \o <<"\n", "\n">>

(***************************************************************************)
(* chunk.toString(): UTF-8 decoding of one chunk on its own.  A lead byte  *)
(* without its continuation byte, and a continuation byte without its lead *)
(* byte, each decode to U+FFFD.                                            *)
(***************************************************************************)
toString(b) ==
  LET d == [k \in 1..Len(b) |->
              CASE b[k] = "C3" ->
                     IF k < Len(b) /\ b[k + 1] = "A9" THEN "U+00E9" ELSE "U+FFFD"
                [] b[k] = "A9" ->
                     IF k > 1 /\ b[k - 1] = "C3" THEN "" ELSE "U+FFFD"
                [] OTHER -> b[k]]
  IN  SelectSeq(d, LAMBDA c : c # "")

\* the bytes the upstream sends for a text
RECURSIVE Utf8Bytes(_)
Utf8Bytes(s) ==
  LET k == IndexOf(s, "U+00E9", 1)
  IN  IF k = 0 THEN s
      ELSE SubSeq(s, 1, k - 1) \o <<"C3", "A9">> \o Utf8Bytes(DropFirst(s, k))

\* buffer.split('\n')
split(s) ==
  LET nl == SelectSeq([k \in 1..Len(s) |-> k], LAMBDA k : s[k] = "\n")
      n == Len(nl)
  IN  [k \in 1..(n + 1) |->
         SubSeq(s, IF k = 1 THEN 1 ELSE nl[k - 1] + 1,
                   IF k = n + 1 THEN Len(s) ELSE nl[k] - 1)]

(***************************************************************************)
(* The body of the for loop of the 'data' callback.  st holds the closure  *)
(* variables and the client sink; returned is set by the return statement  *)
(* of the [DONE] branch.                                                   *)
(***************************************************************************)
SHOW_REASONING == FALSE

FlushAt == 50

AccumulateBelow == 100

\* if (isFirstChunk || accumulatedContent.length < 100)
Accumulating(first, acc) == first \/ Len(acc) < AccumulateBelow

\* the branch of a decoded payload whose delta has content
OnContent(st, delta) ==
  IF Accumulating(st.isFirstChunk, st.accumulatedContent)
  THEN LET acc == st.accumulatedContent \o Field(delta, ContentKey)
           cleaned == cleanResponse(acc)
       IN  IF Len(acc) >= FlushAt
           THEN [st EXCEPT !.accumulatedContent = <<>>,
                           !.isFirstChunk = FALSE,
                           !.written = IF cleaned # <<>>
                                       THEN Append(@, EventText(SetContent(delta, cleaned)))
                                       ELSE @]
           ELSE [st EXCEPT !.accumulatedContent = acc]
  ELSE [st EXCEPT !.written =
          Append(@, EventText(IF ~SHOW_REASONING THEN DeleteReasoning(delta)
                              ELSE delta))]

\* the catch branch, dropping the line
OnParseErrorDrop(st, line) == st

\* catch { res.write(line + '\n'); }
OnParseError(st, line) == [st EXCEPT !.written = Append(@, line \o <<"\n">>)]

ProcessLine(st, line) ==
  IF ~StartsWith(line, DataPrefix) THEN st
  ELSE IF Includes(line, DoneMark)
  THEN [st EXCEPT !.written = Append(@, DoneText), !.returned = TRUE]
  ELSE LET data == JSONparse(DropFirst(line, Len(DataPrefix)))
       IN  IF ~data.ok
           THEN OnParseError(st, line)
           ELSE LET seen == [st EXCEPT !.decoded = Append(@, data.delta)]
                IN  IF Field(data.delta, ContentKey) # <<>>
                    THEN OnContent(seen, data.delta)
                    ELSE seen

RECURSIVE ProcessLines(_, _, _)
ProcessLines(st, lines, k) ==
  IF k > Len(lines) \/ st.returned THEN st
  ELSE ProcessLines(ProcessLine([st EXCEPT !.handled = Append(@, lines[k])], lines[k]),
                    lines, k + 1)

\* the partial line lost instead of kept
PendingNone(all) == <<>>

\* buffer = lines.pop() || ''
Pending(all) == all[Len(all)]

\* the whole 'data' callback for one chunk of bytes
HandleData(st, chunk) ==
  LET all == split(st.buffer \o toString(chunk))
      lines == SubSeq(all, 1, Len(all) - 1)
  IN  ProcessLines([st EXCEPT !.buffer = Pending(all), !.returned = FALSE],
                   lines, 1)

(***************************************************************************)
(* The upstream replies of the model.                                      *)
(***************************************************************************)
Filler(n) == [k \in 1..n |-> "x"]

ContentEvent(c) == EventText(<<[key |-> ContentKey, value |-> c]>>)

RoleEvent ==
  EventText(<<[key |-> RoleKey,
               value |-> <<"a", "s", "s", "i", "s", "t", "a", "n", "t">>]>>)

\* a lead-in split over two fragments, then two more fragments
StreamTypical ==
  RoleEvent
    \o ContentEvent(<<"S", "u", "r", "e", ",", " ">>)
    \o ContentEvent(Filler(FlushAt - 6))
    \o ContentEvent(<<" ", "t", "h", "e", "n", " ">>)
    \o ContentEvent(<<"O", "f", " ", "c", "o", "u", "r", "s", "e", ",", " ">>
                      \o Filler(FlushAt - 5))
    \o DoneText

\* deltas that carry a reasoning trace
StreamReasoning ==
  EventText(<<[key |-> ReasoningKey, value |-> <<"h", "m">>]>>)
    \o EventText(<<[key |-> ReasoningKey, value |-> <<"w", "h", "y">>],
                   [key |-> ContentKey, value |-> Filler(FlushAt)]>>)
    \o ContentEvent(<<"O", "k", "a", "y", ",", " ">> \o Filler(FlushAt))
    \o DoneText

\* a fragment with a two-byte character
StreamUtf8 ==
  ContentEvent(<<"c", "a", "f", "U+00E9", " ">> \o Filler(FlushAt - 4))
    \o DoneText

\* a reply shorter than the flush threshold
StreamShort ==
  RoleEvent \o ContentEvent(<<"S", "u", "r", "e", ",", " ", "o", "k">>) \o DoneText

\* a reply whose text mentions [DONE]
StreamDoneText ==
  ContentEvent(<<"s", "a", "y", " ", "[", "D", "O", "N", "E", "]", " ">>
                 \o Filler(FlushAt - 10))
    \o ContentEvent(Filler(FlushAt))
    \o DoneText

\* a payload that is not JSON between two that are
StreamMalformed ==
  ContentEvent(Filler(FlushAt - 30))
    \o DataPrefix \o EnvelopeOpen \o <<"\"", "c", "o", "n", "t", "e", "n", "t", "\"",
                                       ":", "\"", "o", "o", "p", "s", "\n", "\n">>
    \o ContentEvent(Filler(30))
    \o DoneText

\* a reply cut off by the upstream in the middle of a line
StreamTruncated ==
  ContentEvent(<<"S", "u", "r", "e", ",", " ", "o", "k">>)
    \o DataPrefix \o <<"{", "\"", "c", "h", "o", "i">>

\* an upstream that goes on sending after the sentinel
StreamAfterDone ==
  ContentEvent(Filler(FlushAt))
    \o DoneText
    \o ContentEvent(<<"l", "a", "t", "e">>)
    \o DoneText

WellFormedTexts ==
  {StreamTypical, StreamReasoning, StreamUtf8, StreamShort, StreamDoneText}

WellFormed == {Utf8Bytes(s) : s \in WellFormedTexts}

Streams ==
  WellFormed \cup {Utf8Bytes(StreamMalformed), Utf8Bytes(StreamTruncated),
                   Utf8Bytes(StreamAfterDone)}

Replies == {<<>>, <<"o", "k">>, <<"S", "u", "r", "e", ",", " ", "o", "k">>}

NoResponse == 0

FailStatuses == {NoResponse, 400, 429, 500, 503}

(***************************************************************************)
(* The /v1/chat/completions handler.                                       *)
(***************************************************************************)
ReqInit ==
  /\ phase = "received"
  /\ stream \in BOOLEAN
  /\ upstream \in (IF stream THEN Streams ELSE {<<>>})
  /\ reply \in (IF stream THEN {<<>>} ELSE Replies)
  /\ calls = 0
  /\ upstreamStatus = -1
  /\ sent = <<>>
  /\ pos = 0
  /\ buffer = <<>>
  /\ isFirstChunk = TRUE
  /\ accumulatedContent = <<>>
  /\ written = <<>>
  /\ decoded = <<>>
  /\ handled = <<>>
  /\ errored = FALSE
  /\ ended = 0

ReqOff ==
  /\ phase = "off"
  /\ stream = FALSE
  /\ upstream = <<>>
  /\ reply = <<>>
  /\ calls = 0
  /\ upstreamStatus = -1
  /\ sent = <<>>
  /\ pos = 0
  /\ buffer = <<>>
  /\ isFirstChunk = TRUE
  /\ accumulatedContent = <<>>
  /\ written = <<>>
  /\ decoded = <<>>
  /\ handled = <<>>
  /\ errored = FALSE
  /\ ended = 0

\* the handler up to `await axios.post(...)`: no timeout option is passed
CallUpstream ==
  /\ phase = "received"
  /\ phase' = "awaiting"
  /\ calls' = calls + 1
  /\ UNCHANGED <<windowVars, cleanVars, twoVars, stream, upstream, reply, upstreamStatus, sent, streamVars>>

\* the upstream answers with a success status: the promise resolves
UpstreamResponds ==
  /\ phase = "awaiting"
  /\ phase' = "resolved"
  /\ UNCHANGED <<windowVars, cleanVars, twoVars, stream, upstream, reply, calls, upstreamStatus, sent, streamVars>>

\* network error (NoResponse) or non-success status: the promise rejects
UpstreamFails ==
  /\ phase = "awaiting"
  /\ \E s \in FailStatuses : upstreamStatus' = s
  /\ phase' = "rejected"
  /\ UNCHANGED <<windowVars, cleanVars, twoVars, stream, upstream, reply, calls, sent, streamVars>>

\* error.response?.status || 500
ErrorStatusFixed(status) == 500

ErrorStatus(status) == IF status # NoResponse THEN status ELSE 500

\* catch (error) { res.status(...).json({ error: {...} }) }
CatchError ==
  /\ phase = "rejected"
  /\ sent' = Append(sent, [status |-> ErrorStatus(upstreamStatus),
                           type |-> "proxy_error",
                           code |-> ErrorStatus(upstreamStatus),
                           content |-> <<>>])
  /\ phase' = "done"
  /\ UNCHANGED <<windowVars, cleanVars, twoVars, stream, upstream, reply, calls, upstreamStatus, streamVars>>

\* NORMAL MODE: one choice, its content cleaned, one res.json
NormalMode ==
  /\ phase = "resolved"
  /\ ~stream
  /\ sent' = Append(sent, [status |-> 200,
                           type |-> "chat.completion",
                           code |-> 0,
                           content |-> cleanResponse(reply)])
  /\ phase' = "done"
  /\ UNCHANGED <<windowVars, cleanVars, twoVars, stream, upstream, reply, calls, upstreamStatus, streamVars>>

\* STREAM MODE: headers set, closure variables initialised, callbacks registered
StartStreaming ==
  /\ phase = "resolved"
  /\ stream
  /\ buffer' = <<>>
  /\ isFirstChunk' = TRUE
  /\ accumulatedContent' = <<>>
  /\ phase' = "streaming"
  /\ UNCHANGED <<windowVars, cleanVars, twoVars, stream, upstream, reply, calls, upstreamStatus, sent, pos,
                 written, decoded, ended, handled, errored>>

\* the ends a chunk that starts after p may have: a few bytes on, the end of
\* a line, the middle of a two-byte character, the end of the reply
CutPoints(p) ==
  {q \in (p + 1)..Len(upstream) :
     \/ q <= p + MaxChunk
     \/ upstream[q] = "\n"
     \/ upstream[q] = "C3"
     \/ q = Len(upstream)}

StreamState ==
  [buffer |-> buffer, isFirstChunk |-> isFirstChunk,
   accumulatedContent |-> accumulatedContent, written |-> written,
   decoded |-> decoded, handled |-> handled, returned |-> FALSE]

\* response.data.on('data', chunk => ...)
OnData ==
  /\ phase = "streaming"
  /\ \E q \in CutPoints(pos) :
       LET st == HandleData(StreamState, SubSeq(upstream, pos + 1, q))
       IN  /\ pos' = q
           /\ buffer' = st.buffer
           /\ isFirstChunk' = st.isFirstChunk
           /\ accumulatedContent' = st.accumulatedContent
           /\ written' = st.written
           /\ decoded' = st.decoded
           /\ handled' = st.handled
  /\ UNCHANGED <<windowVars, cleanVars, twoVars, phase, stream, upstream, reply, calls, upstreamStatus, sent, ended, errored>>

\* if (accumulatedContent) { cleaned = ...; if (cleaned) res.write(...) }
Flush(sink, acc) ==
  LET cleaned == cleanResponse(acc)
  IN  IF acc # <<>> /\ cleaned # <<>>
      THEN Append(sink, ContentEvent(cleaned))
      ELSE sink

\* response.data.on('end', ...)
OnEnd ==
  /\ phase = "streaming"
  /\ pos = Len(upstream)
  /\ written' = Flush(written, accumulatedContent)
  /\ ended' = ended + 1
  /\ phase' = "closed"
  /\ UNCHANGED <<windowVars, cleanVars, twoVars, stream, upstream, reply, calls, upstreamStatus, sent, pos, buffer,
                 isFirstChunk, accumulatedContent, decoded, handled, errored>>

\* the error handler reporting the error to the client before it closes
OnErrorWrites ==
  /\ phase = "streaming"
  /\ errored' = TRUE
  /\ written' = Append(written, DataPrefix \o <<"{", "\"", "e", "r", "r", "o", "r", "\"",
                                                ":", "{", "}", "}", "\n", "\n">>)
  /\ ended' = ended + 1
  /\ phase' = "closed"
  /\ UNCHANGED <<windowVars, cleanVars, twoVars, stream, upstream, reply, calls, upstreamStatus, sent, pos, buffer,
                 isFirstChunk, accumulatedContent, decoded, handled>>

\* response.data.on('error', ...)
OnError ==
  /\ phase = "streaming"
  /\ errored' = TRUE
  /\ ended' = ended + 1
  /\ phase' = "closed"
  /\ UNCHANGED <<windowVars, cleanVars, twoVars, stream, upstream, reply, calls, upstreamStatus, sent, pos, buffer,
                 isFirstChunk, accumulatedContent, written, decoded, handled>>

Next ==
  \/ CallUpstream
  \/ UpstreamResponds
  \/ UpstreamFails
  \/ CatchError
  \/ NormalMode
  \/ StartStreaming
  \/ OnData
  \/ OnEnd
  \/ OnError

(***************************************************************************)
(* Two requests in stream mode at the same time.  Each call of the handler *)
(* declares its own buffer, isFirstChunk and accumulatedContent; the       *)
(* callbacks of the two upstream streams interleave in any order.  alone   *)
(* is the same request fed the same chunks with no other request around.   *)
(***************************************************************************)
Requests == {1, 2}

TwoStreams ==
  {Utf8Bytes(StreamShort), Utf8Bytes(StreamUtf8), Utf8Bytes(StreamTruncated)}

Fresh ==
  [buffer |-> <<>>, isFirstChunk |-> TRUE, accumulatedContent |-> <<>>,
   written |-> <<>>, decoded |-> <<>>, handled |-> <<>>, returned |-> FALSE]

\* one set of closure variables for all the calls of the handler
ClosureShared(r) == 1

\* let buffer, isFirstChunk, accumulatedContent: declared inside the handler
Closure(r) == r

TwoInit ==
  /\ reqs \in [Requests -> [upstream : TwoStreams, pos : {0}, phase : {"resolved"},
                            written : {<<>>}, ended : {0}]]
  /\ closures = [c \in Requests |-> [buffer |-> <<>>, isFirstChunk |-> TRUE,
                                     accumulatedContent |-> <<>>]]
  /\ alone = [r \in Requests |-> Fresh]

TwoOff ==
  /\ reqs = <<>>
  /\ closures = <<>>
  /\ alone = <<>>

\* the chunk ends of the two-request model: line ends, the start of an
\* array, the middle of a two-byte character, at most MaxSpan of them ahead
TwoCuts(r) ==
  LET up == reqs[r].upstream
      p == reqs[r].pos
      marks == {q \in (p + 1)..Len(up) :
                  up[q] = "\n" \/ up[q] = "[" \/ up[q] = "C3" \/ q = Len(up)}
  IN  {q \in marks : Cardinality({m \in marks : m < q}) < MaxSpan}

TwoState(r) ==
  [Fresh EXCEPT !.buffer = closures[Closure(r)].buffer,
                !.isFirstChunk = closures[Closure(r)].isFirstChunk,
                !.accumulatedContent = closures[Closure(r)].accumulatedContent,
                !.written = reqs[r].written]

TwoStart(r) ==
  /\ reqs[r].phase = "resolved"
  /\ reqs' = [reqs EXCEPT ![r].phase = "streaming"]
  /\ closures' = [closures EXCEPT ![Closure(r)] =
                    [buffer |-> <<>>, isFirstChunk |-> TRUE, accumulatedContent |-> <<>>]]
  /\ UNCHANGED <<windowVars, cleanVars, reqVars, alone>>

TwoData(r) ==
  /\ reqs[r].phase = "streaming"
  /\ \E q \in TwoCuts(r) :
       LET chunk == SubSeq(reqs[r].upstream, reqs[r].pos + 1, q)
           st == HandleData(TwoState(r), chunk)
       IN  /\ reqs' = [reqs EXCEPT ![r].pos = q, ![r].written = st.written]
           /\ closures' = [closures EXCEPT ![Closure(r)] =
                             [buffer |-> st.buffer, isFirstChunk |-> st.isFirstChunk,
                              accumulatedContent |-> st.accumulatedContent]]
           /\ alone' = [alone EXCEPT ![r] = HandleData(@, chunk)]
  /\ UNCHANGED <<windowVars, cleanVars, reqVars>>

TwoEnd(r) ==
  /\ reqs[r].phase = "streaming"
  /\ reqs[r].pos = Len(reqs[r].upstream)
  /\ reqs' = [reqs EXCEPT ![r].written =
                            Flush(@, closures[Closure(r)].accumulatedContent),
                          ![r].ended = @ + 1,
                          ![r].phase = "closed"]
  /\ alone' = [alone EXCEPT ![r].written = Flush(@, alone[r].accumulatedContent)]
  /\ UNCHANGED <<windowVars, cleanVars, reqVars, closures>>

TwoError(r) ==
  /\ reqs[r].phase = "streaming"
  /\ reqs' = [reqs EXCEPT ![r].ended = @ + 1, ![r].phase = "closed"]
  /\ UNCHANGED <<windowVars, cleanVars, reqVars, closures, alone>>

TwoNext ==
  \E r \in Requests : TwoStart(r) \/ TwoData(r) \/ TwoEnd(r) \/ TwoError(r)

InitTwo == WindowOff /\ CleanOff /\ ReqOff /\ TwoInit

SpecTwo == InitTwo /\ [][TwoNext]_vars

InitWindow == WindowInit /\ CleanOff /\ ReqOff /\ TwoOff

SpecWindow == InitWindow /\ [][WindowNext]_vars

InitClean == WindowOff /\ CleanInit /\ ReqOff /\ TwoOff

SpecClean == InitClean /\ [][CleanNext]_vars

Init == WindowOff /\ CleanOff /\ ReqInit /\ TwoOff

Spec == Init /\ [][Next]_vars

\* the handler's own steps are taken once they are enabled; the upstream's
\* answer, chunks, end and error are the environment's and may never come
\* WF_vars(NormalMode), its enabling condition written out
NormalModeFair ==
  []<>(~(phase = "resolved" /\ ~stream)) \/ []<><<NormalMode>>_vars

FairSpec ==
  Spec /\ WF_vars(CallUpstream) /\ WF_vars(CatchError) /\ WF_vars(StartStreaming)
       /\ NormalModeFair

(***************************************************************************)
(* Claims about limitMessagesByTokens.                                     *)
(***************************************************************************)
RECURSIVE SumTokens(_)
SumTokens(ms) ==
  IF ms = <<>> THEN 0
  ELSE estimateTokens(StringifyMessage(Head(ms))) + SumTokens(Tail(ms))

\* C1: the estimated token costs of the messages returned by
\* limitMessagesByTokens sum to at most the budget.
C1_WithinBudget == wpc = "done" => SumTokens(keptMessages) <= maxTokens

\* a call that kept some but not all messages and used the budget up exactly
C1_Witness ==
  /\ wpc = "done"
  /\ Len(keptMessages) = 2
  /\ Len(messages) = 3
  /\ SumTokens(keptMessages) = maxTokens

IsSuffix(s, t) ==
  /\ Len(s) <= Len(t)
  /\ \A k \in 1..Len(s) : s[k] = t[Len(t) - Len(s) + k]

\* C2: the result of limitMessagesByTokens is a contiguous suffix of the
\* input: same messages, same order, none duplicated, and no message kept
\* while a more recent one is left out.
C2_Suffix == wpc = "done" => IsSuffix(keptMessages, messages)

\* a call that kept two distinct messages and left an older one out
C2_Witness ==
  /\ wpc = "done"
  /\ Len(messages) = 3
  /\ Len(keptMessages) = 2
  /\ keptMessages[1] # keptMessages[2]
  /\ messages[1] # messages[2]

(***************************************************************************)
(* Claims about cleanResponse.                                             *)
(***************************************************************************)
MatchesAtStart(t) ==
  \E k \in 1..Len(UNWANTED_PHRASES) : MatchLen(t, UNWANTED_PHRASES[k]) > 0

\* C6: cleanResponse is idempotent, cleanResponse(cleanResponse(t)) =
\* cleanResponse(t), and its result is empty or a text at whose start no
\* catalog pattern matches.
C6_Idempotent ==
  /\ cpc = "twice" => cleanedTwice = cleanedOnce
  /\ cpc \in {"once", "twice"} => cleanedOnce = <<>> \/ ~MatchesAtStart(cleanedOnce)

\* a text with chained lead-ins, stripped in more than one pass, was cleaned
\* twice
C6_Witness ==
  /\ cpc = "twice"
  /\ text = <<"O", "K", "A", "Y", " ", "O", "f", " ", "c", "o", "u", "r", "s", "e",
              "!", " ", "x">>
  /\ cleanedOnce = <<"x">>

(***************************************************************************)
(* Claims about the handler and its streaming callbacks.                   *)
(***************************************************************************)
\* what a client reads out of one write: the delta of a `data: <JSON>` event
ClientParse(w) ==
  IF StartsWith(w, DataPrefix) /\ EndsWith(w, <<"\n", "\n">>)
  THEN JSONparse(SubSeq(w, Len(DataPrefix) + 1, Len(w) - 2))
  ELSE [ok |-> FALSE, delta |-> <<>>]

\* the content fragments carried by a sequence of writes, in order
WrittenContents(ws) ==
  LET cs == [k \in 1..Len(ws) |-> Field(ClientParse(ws[k]).delta, ContentKey)]
  IN  SelectSeq(cs, LAMBDA c : c # <<>>)

\* the content fragments of a sequence of decoded deltas, in order
DecodedContents(ds) ==
  LET cs == [k \in 1..Len(ds) |-> Field(ds[k], ContentKey)]
  IN  SelectSeq(cs, LAMBDA c : c # <<>>)

\* a 'data' callback that runs after the first flush
LaterData == phase = "streaming" /\ ~isFirstChunk /\ pos' # pos

OccurrencesOf(pat, s) ==
  Cardinality({k \in 1..(Len(s) - Len(pat) + 1) : SubSeq(s, k, k + Len(pat) - 1) = pat})

\* the client sink after the whole reply arrived as a single chunk
SingleChunk(bytes) ==
  HandleData([buffer |-> <<>>, isFirstChunk |-> TRUE, accumulatedContent |-> <<>>,
              written |-> <<>>, decoded |-> <<>>, handled |-> <<>>,
              returned |-> FALSE], bytes).written

\* C3: chunk-boundary invariance: however a well-formed event stream (one
\* whose only [DONE] is its last event) is cut into chunks, the 'data'
\* handler has written the same events once all its bytes have arrived.
C3_ChunkInvariance ==
  (/\ phase = "streaming"
   /\ pos = Len(upstream)
   /\ upstream \in WellFormed
   /\ OccurrencesOf(DoneMark, upstream) = 1)
    => written = SingleChunk(upstream)

\* the content fragments decoded, and those written, by the step
NewDecoded == DecodedContents(SubSeq(decoded', Len(decoded) + 1, Len(decoded')))

NewWritten == WrittenContents(SubSeq(written', Len(written) + 1, Len(written')))

\* C4: once the first cleaned fragment has been flushed, a later content
\* fragment is written to the client with its content unchanged, also when it
\* begins with a phrase of the catalog.
C4_PassthroughUnchanged ==
  [][(LaterData /\ Len(NewDecoded) = 1 /\ MatchesAtStart(NewDecoded[1]))
       => NewWritten = NewDecoded]_vars

\* C5: after the accumulation buffer has been flushed at the threshold the
\* normalizer never accumulates again: nothing is appended to the buffer.
C5_NoReaccumulation == ~isFirstChunk => accumulatedContent = <<>>

\* C7: an upstream call that fails before streaming has begun yields exactly
\* one structured error response, with the upstream status when there is one
\* and 500 otherwise, no reply content, and no second upstream call.
C7_SingleError ==
  upstreamStatus # -1 =>
    /\ written = <<>>
    /\ ended = 0
    /\ calls = 1
    /\ phase = "rejected" => sent = <<>>
    /\ phase = "done" =>
         /\ Len(sent) = 1
         /\ sent[1].type = "proxy_error"
         /\ sent[1].status = (IF upstreamStatus = NoResponse THEN 500 ELSE upstreamStatus)
         /\ sent[1].code = sent[1].status

\* the upstream answered 429 and the error response went out
C7_Witness ==
  /\ phase = "done"
  /\ upstreamStatus = 429
  /\ Len(sent) = 1
  /\ sent[1].status = 429

\* C8: the wait for the upstream is bounded: a pending upstream call is
\* eventually over, answered or failed with an error response.
C8_BoundedWait == (phase = "awaiting") ~> (phase \in {"resolved", "rejected", "done"})

\* C9: with SHOW_REASONING false no event written to the client carries a
\* reasoning_content field.
C9_NoReasoningWritten ==
  ~SHOW_REASONING =>
    \A k \in 1..Len(written) :
      ~HasField(ClientParse(written[k]).delta, ReasoningKey)

\* C10: outside the initial accumulation window each decoded content event
\* produces its own client event, in order: a 'data' callback after the
\* first flush writes one content event per content fragment it decoded.
C10_OneEventPerFragment ==
  [][(LaterData /\ upstream \in WellFormed)
       => Len(NewWritten) = Len(NewDecoded)]_vars

\* a 'data: ' line that is not the sentinel and whose payload is not JSON
Undecodable(line) ==
  /\ StartsWith(line, DataPrefix)
  /\ ~Includes(line, DoneMark)
  /\ ~JSONparse(DropFirst(line, Len(DataPrefix))).ok

IsSentinel(line) == StartsWith(line, DataPrefix) /\ Includes(line, DoneMark)

\* the lines up to the first sentinel line, the ones the loop gets to
UpToSentinel(lines) ==
  IF \E k \in 1..Len(lines) : IsSentinel(lines[k])
  THEN SubSeq(lines, 1, CHOOSE k \in 1..Len(lines) :
                          IsSentinel(lines[k]) /\ \A j \in 1..(k - 1) : ~IsSentinel(lines[j]))
  ELSE lines

RECURSIVE Join(_)
Join(ls) ==
  IF Len(ls) = 1 THEN ls[1] ELSE Head(ls) \o <<"\n">> \o Join(Tail(ls))

\* a write that is not an event: a raw line and its newline
IsRaw(w) == ~EndsWith(w, <<"\n", "\n">>)

Events(ws) == SelectSeq(ws, LAMBDA w : ~IsRaw(w))

\* the same callback on the same lines without the undecodable ones
WithoutUndecodable(all) ==
  LET kept == SelectSeq(SubSeq(all, 1, Len(all) - 1), LAMBDA l : ~Undecodable(l))
  IN  HandleData([StreamState EXCEPT !.buffer = <<>>],
                 Utf8Bytes(Join(kept \o <<all[Len(all)]>>)))

\* what a 'data' callback that split its text into all did with it
RawLinesForwarded(all) ==
  LET bad == SelectSeq(UpToSentinel(SubSeq(all, 1, Len(all) - 1)), Undecodable)
      new == SubSeq(written', Len(written) + 1, Len(written'))
  IN  /\ SelectSeq(new, IsRaw) = [k \in 1..Len(bad) |-> bad[k] \o <<"\n">>]
      /\ \A ref \in {WithoutUndecodable(all)} :
           /\ Events(written') = Events(ref.written)
           /\ decoded' = ref.decoded
           /\ accumulatedContent' = ref.accumulatedContent
           /\ isFirstChunk' = ref.isFirstChunk
           /\ buffer' = ref.buffer

\* C11: a 'data: ' line whose payload cannot be decoded is written to the
\* client verbatim, and the other lines of the stream are processed as if it
\* were not there.
C11_RawLineForwarded ==
  [][(phase = "streaming" /\ pos' # pos) =>
       \A chunk \in {SubSeq(upstream, pos + 1, pos')} :
         \A joined \in {buffer \o toString(chunk)} :
           \A all \in {split(joined)} : RawLinesForwarded(all)]_vars

\* the undecodable line was written as it came and a content event decoded
\* from a later line was written after it
C11_Witness ==
  \E k \in 1..Len(written) :
    /\ written[k] = DataPrefix \o EnvelopeOpen
                      \o <<"\"", "c", "o", "n", "t", "e", "n", "t", "\"", ":", "\"",
                           "o", "o", "p", "s", "\n">>
    /\ \E j \in (k + 1)..Len(written) : WrittenContents(<<written[j]>>) # <<>>

(***************************************************************************)
(* The cliff edge of limitMessagesByTokens.                                *)
(***************************************************************************)
Suffix(ms, n) == SubSeq(ms, Len(ms) - n + 1, Len(ms))

\* the length of the longest suffix of ms whose cost is within max
LongestFit(ms, max) ==
  CHOOSE n \in 0..Len(ms) :
    /\ SumTokens(Suffix(ms, n)) <= max
    /\ \A m \in (n + 1)..Len(ms) : SumTokens(Suffix(ms, m)) > max

\* C12: limitMessagesByTokens returns exactly the longest suffix of the
\* history whose estimated cost is within the budget; the message that would
\* exceed the budget ends the scan, so an over-budget most recent message
\* makes the result empty.
C12_LongestSuffix ==
  wpc = "done" =>
    /\ keptMessages = Suffix(messages, LongestFit(messages, maxTokens))
    /\ (/\ messages # <<>>
        /\ estimateTokens(StringifyMessage(messages[Len(messages)])) > maxTokens)
         => keptMessages = <<>>

\* the most recent message alone exceeds the budget, an older one would fit,
\* and the result is empty
C12_Witness ==
  /\ wpc = "done"
  /\ Len(messages) >= 2
  /\ estimateTokens(StringifyMessage(messages[Len(messages)])) > maxTokens
  /\ \E k \in 1..(Len(messages) - 1) :
       estimateTokens(StringifyMessage(messages[k])) <= maxTokens
  /\ keptMessages = <<>>

(***************************************************************************)
(* The termination sentinel.                                               *)
(***************************************************************************)
SentinelLine == DataPrefix \o DoneMark

\* every [DONE] of the bytes is a line 'data: [DONE]' of its own
OnlyLiteralSentinels(bytes) ==
  OccurrencesOf(DoneMark, bytes)
    = OccurrencesOf(<<"\n">> \o SentinelLine \o <<"\n">>, bytes)

DoneWritten == \E k \in 1..Len(written) : written[k] = DoneText

\* C13: once the sentinel line has been processed no later line of the
\* stream, in the same chunk or in a later one, is processed or written, so
\* at most one 'data: [DONE]' event is written.
C13_NothingAfterSentinel ==
  [][(/\ phase = "streaming"
      /\ OnlyLiteralSentinels(upstream)
      /\ DoneWritten
      /\ pos' # pos)
       => /\ written' = written
          /\ decoded' = decoded
          /\ accumulatedContent' = accumulatedContent]_vars

\* a content fragment is written after the termination event
ContentAfterDone ==
  \E j, k \in 1..Len(written) :
    j < k /\ written[j] = DoneText /\ WrittenContents(<<written[k]>>) # <<>>

\* C14: when the stream ends while the normalizer is still accumulating, the
\* accumulated content is flushed before the end of the stream is signalled:
\* no content fragment follows the 'data: [DONE]' event.
C14_FlushBeforeDone ==
  (/\ phase = "closed"
   /\ stream
   /\ isFirstChunk
   /\ upstream \in WellFormed
   /\ OnlyLiteralSentinels(upstream))
    => ~ContentAfterDone

(***************************************************************************)
(* The pending line buffer.  Lines are compared byte for byte: a two-byte  *)
(* character counts as two replacement characters however it was decoded.  *)
(***************************************************************************)
ByteWise(b) ==
  [k \in 1..Len(b) |-> IF b[k] = "C3" \/ b[k] = "A9" THEN "U+FFFD" ELSE b[k]]

SameLine(l, m) == ByteWise(Utf8Bytes(l)) = m

\* buf is the unterminated tail of the text received, all its lines
PendingIsTail(buf, all) ==
  /\ ~Includes(buf, <<"\n">>)
  /\ SameLine(buf, all[Len(all)])

\* the lines handed to line processing are the complete lines received
AllHandled(h, all) ==
  /\ Len(h) = Len(all) - 1
  /\ \A k \in 1..Len(h) : SameLine(h[k], all[k])

\* the same for the lines up to the first one that carries the sentinel
HandledUpToSentinel(h, all) ==
  LET upto == UpToSentinel(SubSeq(all, 1, Len(all) - 1))
  IN  /\ Len(upto) <= Len(h)
      /\ Len(h) <= Len(all) - 1
      /\ \A k \in 1..Len(upto) : SameLine(h[k], upto[k])
      /\ \A k \in 1..Len(h) : \E j \in k..(Len(all) - 1) : SameLine(h[k], all[j])

\* the 'end' callback leaves a non-empty pending buffer alone
EndDiscardsPending ==
  (phase = "streaming" /\ phase' = "closed" /\ ~errored' /\ buffer # <<>>) =>
    /\ handled' = handled
    /\ decoded' = decoded
    /\ \/ written' = written
       \/ written' = Append(written, ContentEvent(cleanResponse(accumulatedContent)))

\* C15 as stated: after every 'data' callback the pending buffer holds no
\* newline and every complete line received so far was handed to line
\* processing exactly once; on end a non-empty pending buffer is discarded
\* without an event.
C15_EveryLineOnce ==
  [][/\ (phase = "streaming" /\ phase' = "streaming") =>
          \A bytes \in {ByteWise(SubSeq(upstream, 1, pos'))} :
            \A all \in {split(bytes)} :
              PendingIsTail(buffer', all) /\ AllHandled(handled', all)
     /\ EndDiscardsPending]_vars

\* C15: as amended: the lines handed over exactly once are those up to and
\* including the first line that carries the sentinel; lines that follow a
\* sentinel line in its callback are dropped.
C15_LinesUpToSentinel ==
  [][/\ (phase = "streaming" /\ phase' = "streaming") =>
          \A bytes \in {ByteWise(SubSeq(upstream, 1, pos'))} :
            \A all \in {split(bytes)} :
              PendingIsTail(buffer', all) /\ HandledUpToSentinel(handled', all)
     /\ EndDiscardsPending]_vars

\* the upstream ended in the middle of a line after complete lines had been
\* processed
C15_Witness ==
  /\ phase = "closed"
  /\ ~errored
  /\ buffer # <<>>
  /\ Len(handled) >= 2
  /\ written # <<>>

(***************************************************************************)
(* Errors of the upstream stream.                                          *)
(***************************************************************************)
\* C16: a stream error after streaming has begun ends the client stream
\* silently: the sink is closed, nothing is written at or after the error,
\* no error response is sent, and the sink is closed exactly once whether
\* the upstream ended or failed.
C16_SilentClose ==
  [][/\ errored' => /\ phase' = "closed"
                    /\ written' = written
                    /\ sent' = <<>>
     /\ phase' = "closed" => ended' = 1
     /\ phase' = "streaming" => ended' = 0]_vars

\* the upstream failed in the middle of the reply, after events were written
C16_Witness ==
  /\ errored
  /\ phase = "closed"
  /\ written # <<>>
  /\ pos < Len(upstream)
  /\ ended = 1

(***************************************************************************)
(* Concurrent requests.                                                    *)
(***************************************************************************)
\* C17: two concurrent streaming requests share no state: however the
\* chunk, end and error callbacks of the two streams interleave, each client
\* has received exactly the writes it would have received alone.
C17_Isolation ==
  \A r \in DOMAIN reqs : reqs[r].written = alone[r].written

\* both streams are in the middle of a line, one client has been written
\* to while the other request is still accumulating, and the replies differ
C17_Witness ==
  /\ DOMAIN reqs = Requests
  /\ \A r \in Requests :
       /\ reqs[r].phase = "streaming"
       /\ closures[Closure(r)].buffer # <<>>
  /\ reqs[1].written # <<>>
  /\ closures[Closure(2)].accumulatedContent # <<>>
  /\ reqs[1].upstream # reqs[2].upstream

(***************************************************************************)
(* What counts as the sentinel.                                            *)
(***************************************************************************)
Count(seq, Test(_)) == Len(SelectSeq(seq, Test))

\* a 'data: ' line with a JSON payload
Decodable(line) ==
  /\ StartsWith(line, DataPrefix)
  /\ JSONparse(DropFirst(line, Len(DataPrefix))).ok

\* C18: only the literal line 'data: [DONE]' is the end-of-stream marker: a
\* 'data: ' line whose JSON payload has [DONE] in its content is decoded and
\* forwarded as content, writes no 'data: [DONE]' event and does not cut off
\* the rest of the chunk.
C18_LiteralSentinelOnly ==
  phase \in {"streaming", "closed"} =>
    /\ Count(written, LAMBDA w : w = DoneText)
         = Count(handled, LAMBDA l : l = SentinelLine)
    /\ Len(decoded) = Count(handled, Decodable)

(***************************************************************************)
(* The reply as a whole.                                                   *)
(***************************************************************************)
EndedNormally ==
  /\ phase = "closed"
  /\ stream
  /\ ~errored
  /\ upstream \in WellFormed
  /\ OnlyLiteralSentinels(upstream)

\* C19: for a stream that ends normally the content written to the client,
\* concatenated, is the upstream content, concatenated, less a leading
\* prefix: nothing from the interior of the reply is removed.
C19_OnlyPrefixRemoved ==
  EndedNormally =>
    IsSuffix(Concat(WrittenContents(written)), Concat(DecodedContents(decoded)))

(***************************************************************************)
(* Deltas without content.                                                 *)
(***************************************************************************)
\* the deltas without content among the deltas ds, in order
WithoutContent(ds) == SelectSeq(ds, LAMBDA d : Field(d, ContentKey) = <<>>)

\* the deltas of the events written to the client, in order
WrittenDeltas ==
  LET parsed == SelectSeq(written, LAMBDA w : ClientParse(w).ok)
  IN  [k \in 1..Len(parsed) |-> ClientParse(parsed[k]).delta]

\* C20: every upstream line that decodes to a JSON payload yields an event
\* for the client, also when its delta has no content (role only, reasoning
\* only): no decoded event is dropped.
C20_NoEventDropped ==
  phase \in {"streaming", "closed"} =>
    LET quiet == WithoutContent(decoded)
    IN  WithoutContent(WrittenDeltas)
          = [k \in 1..Len(quiet) |-> DeleteReasoning(quiet[k])]
====
